---- MODULE Spec2Model ----
(***************************************************************************)
(* smsflib: the RPN register stacks ClassicStack (four registers X,Y,Z,T)  *)
(* and DynamicSizedStack (a Vec whose last element is the top), the two    *)
(* traits BasicStackOperations and InPlaceFnApplication they implement,    *)
(* and the derived BasicMathOperations built on InPlaceFnApplication.      *)
(*                                                                         *)
(* One stack is exercised per behaviour.  `call` records the most recent   *)
(* call (operation, argument, the stack before it and the value it         *)
(* returned); `prev` records the call before that one when depth = 2;      *)
(* `run` records, when it is kept, the current run of consecutive calls of *)
(* one operation: the operation, how many calls, the stack the run found;  *)
(* `twin` is, when it is kept, a ClassicStack that receives every call the *)
(* stack receives, with what the most recent call returned on it.          *)
(* The element type is a signed integer type (the doc tests use i32):      *)
(* `/=` truncates towards zero and panics on a zero divisor.               *)
(***************************************************************************)
EXTENDS Integers, Sequences, FiniteSets, TLC

\* Elements are drawn from -MaxAbs..MaxAbs; a call whose result leaves this
\* range is not taken.
MaxAbs == 2

\* A DynamicSizedStack holds at most MaxLen elements; push is not taken beyond.
MaxLen == 4

Val == (0 - MaxAbs)..MaxAbs

VARIABLES stack, call, prev, depth, run, twin

vars == <<stack, call, prev, depth, run, twin>>

----------------------------------------------------------------------------
(* Result<_, StackError> and Option<_>                                     *)

Ok(v) == [tag |-> "Ok", val |-> v]

OkUnit == [tag |-> "OkUnit"]

NotEnoughOperands(required, available) ==
    [tag |-> "NotEnoughOperands", num_required |-> required, num_available |-> available]

\* The call did not return: the closure it ran panicked.
Panic == [tag |-> "Panic"]

Some(v) == [tag |-> "Some", val |-> v]

None == [tag |-> "None"]

----------------------------------------------------------------------------
(* Element arithmetic of the closures the derived operations pass down     *)

Abs(a) == IF a < 0 THEN 0 - a ELSE a

\* Integer division of the element type: truncates towards zero.
TruncDiv(a, b) ==
    IF (a < 0) = (b < 0) THEN Abs(a) \div Abs(b) ELSE 0 - (Abs(a) \div Abs(b))

Returned(v) == [panic |-> FALSE, val |-> v]

Panicked == [panic |-> TRUE, val |-> 0]

\* Option::unwrap: the value inside Some, a panic on None.
unwrap(o) == IF o.tag = "Some" THEN Returned(o.val) ELSE Panicked

RECURSIVE IntPow(_, _)
IntPow(base, n) == IF n = 0 THEN 1 ELSE base * IntPow(base, n - 1)

\* base.powf(exponent) is a whole number again for a whole exponent >= 0 and
\* for the bases 1 and -1.
PowfWhole(base, exponent) == exponent >= 0 \/ base \in {1, 0 - 1}

\* Float::powf on whole numbers, where PowfWhole holds; 0.powf(0) is 1.
powf(base, exponent) ==
    IF exponent >= 0 THEN IntPow(base, exponent) ELSE IntPow(base, 0 - exponent)

\* The closures |target, other| { *target op= other }.
BinaryFns == {"add_assign", "sub_assign", "mul_assign", "div_assign"}

BinaryFn(f, target, other) ==
    CASE f = "add_assign" -> Returned(target + other)
      [] f = "sub_assign" -> Returned(target - other)
      [] f = "mul_assign" -> Returned(target * other)
      [] f = "div_assign" -> IF other = 0 THEN Panicked
                             ELSE Returned(TruncDiv(target, other))
      [] f = "powf" -> Returned(powf(other, target))

\* The closures |x| { *x = g(x) }.
UnaryFns == {"neg", "abs", "add_one"}

UnaryFn(f, x) ==
    CASE f = "neg" -> Returned(0 - x)
      [] f = "abs" -> Returned(Abs(x))
      [] f = "add_one" -> Returned(x + 1)

----------------------------------------------------------------------------
(* Vec<T>, as the container of DynamicSizedStack uses it (0-based indices) *)

Vec_pop(c) ==
    IF Len(c) = 0 THEN [vec |-> c, item |-> None]
    ELSE [vec |-> SubSeq(c, 1, Len(c) - 1), item |-> Some(c[Len(c)])]

Vec_push(c, v) == Append(c, v)

Vec_remove(c, idx) ==
    [vec |-> SubSeq(c, 1, idx) \o SubSeq(c, idx + 2, Len(c)), item |-> c[idx + 1]]

Vec_swap(c, i, j) == [c EXCEPT ![i + 1] = c[j + 1], ![j + 1] = c[i + 1]]

Vec_last(c) == IF Len(c) = 0 THEN None ELSE Some(c[Len(c)])

Vec_set_last(c, v) == [c EXCEPT ![Len(c)] = v]

Vec_get(c, idx) == IF idx < Len(c) THEN Some(c[idx + 1]) ELSE None

Vec_rotate_left_1(c) == SubSeq(c, 2, Len(c)) \o SubSeq(c, 1, 1)

Vec_rotate_right_1(c) == SubSeq(c, Len(c), Len(c)) \o SubSeq(c, 1, Len(c) - 1)

----------------------------------------------------------------------------
(* Constructors and read accessors                                         *)

ClassicStack_new(x, y, z, t) == [kind |-> "classic", x |-> x, y |-> y, z |-> z, t |-> t]

DynamicSizedStack_new == [kind |-> "dynamic", container |-> <<>>]

clone_from_slice(source) == [kind |-> "dynamic", container |-> source]

len(s) == Len(s.container)

is_empty(s) == Len(s.container) = 0

\* Variant: positions are counted from the front of the container.
get_from_front(s, idx) ==
    IF idx < len(s) THEN Vec_get(s.container, idx) ELSE None

get(s, idx) ==
    IF idx < len(s)
    THEN LET reverse_idx == len(s) - (idx + 1) IN Vec_get(s.container, reverse_idx)
    ELSE None

\* std::mem::replace(&mut s.reg, v): stores v, hands back the old value.
mem_replace(s, reg, v) == [stack |-> [s EXCEPT ![reg] = v], old |-> s[reg]]

\* std::mem::swap(&mut s.a, &mut s.b)
mem_swap(s, a, b) == [s EXCEPT ![a] = s[b], ![b] = s[a]]

----------------------------------------------------------------------------
(* impl BasicStackOperations for ClassicStack                              *)
(* Every operation yields the stack it leaves and the value it returns.    *)

\* Variant: the registers move the other way round.
Classic_rotate_up_reversed(s) ==
    LET s1 == mem_swap(s, "x", "t")
        s2 == mem_swap(s1, "x", "z")
        s3 == mem_swap(s2, "x", "y")
    IN [stack |-> s3, res |-> OkUnit]

Classic_rotate_up(s) ==
    LET s1 == mem_swap(s, "x", "y")
        s2 == mem_swap(s1, "x", "z")
        s3 == mem_swap(s2, "x", "t")
    IN [stack |-> s3, res |-> OkUnit]

\* Variant: only X, Y and Z take part, T stays where it is.
Classic_rotate_down_three(s) ==
    LET s1 == mem_swap(s, "x", "z")
        s2 == mem_swap(s1, "x", "y")
    IN [stack |-> s2, res |-> OkUnit]

Classic_rotate_down(s) ==
    LET s1 == mem_swap(s, "x", "t")
        s2 == mem_swap(s1, "x", "z")
        s3 == mem_swap(s2, "x", "y")
    IN [stack |-> s3, res |-> OkUnit]

\* Variant: X is exchanged with Z.
Classic_swap_x_z(s) == [stack |-> mem_swap(s, "x", "z"), res |-> OkUnit]

Classic_swap(s) == [stack |-> mem_swap(s, "x", "y"), res |-> OkUnit]

\* Variant: Y and Z move down but Z is not refilled from T.
Classic_pop_stale_z(s) ==
    LET ry == mem_replace(s, "y", s.z)
        rx == mem_replace(ry.stack, "x", ry.old)
    IN [stack |-> rx.stack, res |-> Ok(rx.old)]

Classic_pop(s) ==
    LET rz == mem_replace(s, "z", s.t)
        ry == mem_replace(rz.stack, "y", rz.old)
        rx == mem_replace(ry.stack, "x", ry.old)
    IN [stack |-> rx.stack, res |-> Ok(rx.old)]

\* Variant: the old Z is dropped instead of the old T.
Classic_push_keep_t(s, value) ==
    LET rx == mem_replace(s, "x", value)
        ry == mem_replace(rx.stack, "y", rx.old)
        rz == mem_replace(ry.stack, "z", ry.old)
    IN [stack |-> rz.stack, res |-> OkUnit]

Classic_push(s, value) ==
    LET rx == mem_replace(s, "x", value)
        ry == mem_replace(rx.stack, "y", rx.old)
        rz == mem_replace(ry.stack, "z", ry.old)
    IN [stack |-> [rz.stack EXCEPT !.t = rz.old], res |-> OkUnit]

\* Variant: T keeps its value.
Classic_clear_keep_t(s) == [stack |-> ClassicStack_new(0, 0, 0, s.t), res |-> OkUnit]

Classic_clear(s) == [stack |-> ClassicStack_new(0, 0, 0, 0), res |-> OkUnit]

\* Variant: X is overwritten by Y and nothing else moves.
Classic_drop_x_only(s) == [stack |-> [s EXCEPT !.x = s.y], res |-> OkUnit]

\* classic/basic_ops.rs: self.x = replace(&mut self.y, replace(&mut self.z, self.t.clone()))
Classic_drop(s) ==
    LET rz == mem_replace(s, "z", s.t)
        ry == mem_replace(rz.stack, "y", rz.old)
    IN [stack |-> [ry.stack EXCEPT !.x = ry.old], res |-> OkUnit]

----------------------------------------------------------------------------
(* impl InPlaceFnApplication for ClassicStack                              *)

\* Variant: a zero in X is taken for an empty stack.
Classic_unary_fn_in_place_zero_is_empty(s, f) ==
    LET r == UnaryFn(f, s.x)
    IN IF s.x = 0 THEN [stack |-> s, res |-> NotEnoughOperands(1, 0)]
       ELSE IF r.panic THEN [stack |-> s, res |-> Panic]
       ELSE [stack |-> [s EXCEPT !.x = r.val], res |-> OkUnit]

Classic_unary_fn_in_place(s, f) ==
    LET r == UnaryFn(f, s.x)
    IN IF r.panic THEN [stack |-> s, res |-> Panic]
       ELSE [stack |-> [s EXCEPT !.x = r.val], res |-> OkUnit]

\* Variant: the closure is handed Y as its target and X as the other operand.
Classic_binary_fn_in_place_first_arg_flipped(s, f) ==
    LET r == BinaryFn(f, s.y, s.x)
    IN IF r.panic THEN [stack |-> s, res |-> Panic]
       ELSE LET s1 == [s EXCEPT !.x = r.val]
                rz == mem_replace(s1, "z", s1.t)
            IN [stack |-> [rz.stack EXCEPT !.y = rz.old], res |-> OkUnit]

Classic_binary_fn_in_place_first_arg(s, f) ==
    LET r == BinaryFn(f, s.x, s.y)
    IN IF r.panic THEN [stack |-> s, res |-> Panic]
       ELSE LET s1 == [s EXCEPT !.x = r.val]
                rz == mem_replace(s1, "z", s1.t)
            IN [stack |-> [rz.stack EXCEPT !.y = rz.old], res |-> OkUnit]

\* Variant: the result stays in Y and the registers are not collapsed.
Classic_binary_fn_in_place_second_arg_no_collapse(s, f) ==
    LET r == BinaryFn(f, s.y, s.x)
    IN IF r.panic THEN [stack |-> s, res |-> Panic]
       ELSE [stack |-> [s EXCEPT !.y = r.val], res |-> OkUnit]

Classic_binary_fn_in_place_second_arg(s, f) ==
    LET r == BinaryFn(f, s.y, s.x)
    IN IF r.panic THEN [stack |-> s, res |-> Panic]
       ELSE LET s1 == [s EXCEPT !.y = r.val]
                rz == mem_replace(s1, "z", s1.t)
                ry == mem_replace(rz.stack, "y", rz.old)
            IN [stack |-> [ry.stack EXCEPT !.x = ry.old], res |-> OkUnit]

----------------------------------------------------------------------------
(* impl BasicStackOperations for DynamicSizedStack                         *)

\* Variant: the container is rotated to the right, as rotate_down does.
Dynamic_rotate_up_rightwards(s) ==
    IF ~is_empty(s)
    THEN [stack |-> [s EXCEPT !.container = Vec_rotate_right_1(s.container)], res |-> OkUnit]
    ELSE [stack |-> s, res |-> OkUnit]

Dynamic_rotate_up(s) ==
    IF ~is_empty(s)
    THEN [stack |-> [s EXCEPT !.container = Vec_rotate_left_1(s.container)], res |-> OkUnit]
    ELSE [stack |-> s, res |-> OkUnit]

\* Variant: fewer than two elements are reported as an underflow.
Dynamic_rotate_down_needs_two(s) ==
    IF len(s) >= 2
    THEN [stack |-> [s EXCEPT !.container = Vec_rotate_right_1(s.container)], res |-> OkUnit]
    ELSE [stack |-> s, res |-> NotEnoughOperands(2, len(s))]

Dynamic_rotate_down(s) ==
    IF ~is_empty(s)
    THEN [stack |-> [s EXCEPT !.container = Vec_rotate_right_1(s.container)], res |-> OkUnit]
    ELSE [stack |-> s, res |-> OkUnit]

\* Variant: the length test is off by one.
Dynamic_swap_needs_three(s) ==
    IF len(s) > 2
    THEN LET idx_ultimate == len(s) - 1
             idx_penultimate == len(s) - 2
         IN [stack |-> [s EXCEPT !.container =
                            Vec_swap(s.container, idx_penultimate, idx_ultimate)],
             res |-> OkUnit]
    ELSE [stack |-> s, res |-> NotEnoughOperands(2, len(s))]

Dynamic_swap(s) ==
    IF len(s) >= 2
    THEN LET idx_ultimate == len(s) - 1
             idx_penultimate == len(s) - 2
         IN [stack |-> [s EXCEPT !.container =
                            Vec_swap(s.container, idx_penultimate, idx_ultimate)],
             res |-> OkUnit]
    ELSE [stack |-> s, res |-> NotEnoughOperands(2, len(s))]

\* Variant: takes the oldest element (the front of the container).
Dynamic_pop_front(s) ==
    IF Len(s.container) = 0
    THEN [stack |-> s, res |-> NotEnoughOperands(1, 0)]
    ELSE LET r == Vec_remove(s.container, 0)
         IN [stack |-> [s EXCEPT !.container = r.vec], res |-> Ok(r.item)]

Dynamic_pop(s) ==
    LET r == Vec_pop(s.container)
    IN IF r.item.tag = "Some"
       THEN [stack |-> [s EXCEPT !.container = r.vec], res |-> Ok(r.item.val)]
       ELSE [stack |-> [s EXCEPT !.container = r.vec], res |-> NotEnoughOperands(1, 0)]

\* Variant: inserts at the front of the container.
Dynamic_push_front(s, value) ==
    [stack |-> [s EXCEPT !.container = <<value>> \o s.container], res |-> OkUnit]

Dynamic_push(s, value) ==
    [stack |-> [s EXCEPT !.container = Vec_push(s.container, value)], res |-> OkUnit]

\* Variant: an empty stack is reported as having nothing to clear.
Dynamic_clear_needs_one(s) ==
    IF is_empty(s) THEN [stack |-> s, res |-> NotEnoughOperands(1, 0)]
    ELSE [stack |-> [s EXCEPT !.container = <<>>], res |-> OkUnit]

Dynamic_clear(s) == [stack |-> [s EXCEPT !.container = <<>>], res |-> OkUnit]

----------------------------------------------------------------------------
(* impl InPlaceFnApplication for DynamicSizedStack                         *)

\* Variant: the function is applied to the oldest element.
Dynamic_unary_fn_in_place_first(s, f) ==
    LET top == Vec_last(s.container)
    IN IF top.tag = "Some"
       THEN LET r == UnaryFn(f, Vec_get(s.container, 0).val)
            IN IF r.panic THEN [stack |-> s, res |-> Panic]
               ELSE [stack |-> [s EXCEPT !.container = [s.container EXCEPT ![1] = r.val]],
                     res |-> OkUnit]
       ELSE [stack |-> s, res |-> NotEnoughOperands(1, 0)]

Dynamic_unary_fn_in_place(s, f) ==
    LET top == Vec_last(s.container)
    IN IF top.tag = "Some"
       THEN LET r == UnaryFn(f, top.val)
            IN IF r.panic THEN [stack |-> s, res |-> Panic]
               ELSE [stack |-> [s EXCEPT !.container = Vec_set_last(s.container, r.val)],
                     res |-> OkUnit]
       ELSE [stack |-> s, res |-> NotEnoughOperands(1, 0)]

\* Variant: the removed operand becomes the result's target.
Dynamic_binary_fn_in_place_first_arg_flipped(s, f) ==
    IF len(s) >= 2
    THEN LET removed == Vec_remove(s.container, len(s) - 2)
             r == BinaryFn(f, removed.item, Vec_last(removed.vec).val)
         IN IF r.panic
            THEN [stack |-> [s EXCEPT !.container = removed.vec], res |-> Panic]
            ELSE [stack |-> [s EXCEPT !.container = Vec_set_last(removed.vec, r.val)],
                  res |-> OkUnit]
    ELSE [stack |-> s, res |-> NotEnoughOperands(2, len(s))]

\* A closure panic leaves the container as it is at that moment: the
\* penultimate element is already removed.
Dynamic_binary_fn_in_place_first_arg(s, f) ==
    IF len(s) >= 2
    THEN LET idx_penultimate == len(s) - 2
             removed == Vec_remove(s.container, idx_penultimate)
             penultimate_item == removed.item
             last_mut == unwrap(Vec_last(removed.vec))
             r == BinaryFn(f, last_mut.val, penultimate_item)
         IN IF last_mut.panic \/ r.panic
            THEN [stack |-> [s EXCEPT !.container = removed.vec], res |-> Panic]
            ELSE [stack |-> [s EXCEPT !.container = Vec_set_last(removed.vec, r.val)],
                  res |-> OkUnit]
    ELSE [stack |-> s, res |-> NotEnoughOperands(2, len(s))]

\* Variant: pops the top before looking at the length.
Dynamic_binary_fn_in_place_second_arg_pop_first(s, f) ==
    LET popped == Vec_pop(s.container)
    IN IF Len(s.container) >= 2
       THEN LET r == BinaryFn(f, Vec_last(popped.vec).val, popped.item.val)
            IN IF r.panic
               THEN [stack |-> [s EXCEPT !.container = popped.vec], res |-> Panic]
               ELSE [stack |-> [s EXCEPT !.container = Vec_set_last(popped.vec, r.val)],
                     res |-> OkUnit]
       ELSE [stack |-> [s EXCEPT !.container = popped.vec],
             res |-> NotEnoughOperands(2, Len(popped.vec))]

\* Variant: one element is taken to be enough.
Dynamic_binary_fn_in_place_second_arg_needs_one(s, f) ==
    IF len(s) >= 1
    THEN LET popped == Vec_pop(s.container)
             ultimate_item == unwrap(popped.item)
             last_mut == unwrap(Vec_last(popped.vec))
             r == BinaryFn(f, last_mut.val, ultimate_item.val)
         IN IF ultimate_item.panic \/ last_mut.panic \/ r.panic
            THEN [stack |-> [s EXCEPT !.container = popped.vec], res |-> Panic]
            ELSE [stack |-> [s EXCEPT !.container = Vec_set_last(popped.vec, r.val)],
                  res |-> OkUnit]
    ELSE [stack |-> s, res |-> NotEnoughOperands(2, len(s))]

\* A closure panic leaves the container with the top already popped.
Dynamic_binary_fn_in_place_second_arg(s, f) ==
    IF len(s) >= 2
    THEN LET popped == Vec_pop(s.container)
             ultimate_item == unwrap(popped.item)
             last_mut == unwrap(Vec_last(popped.vec))
             r == BinaryFn(f, last_mut.val, ultimate_item.val)
         IN IF ultimate_item.panic \/ last_mut.panic \/ r.panic
            THEN [stack |-> [s EXCEPT !.container = popped.vec], res |-> Panic]
            ELSE [stack |-> [s EXCEPT !.container = Vec_set_last(popped.vec, r.val)],
                  res |-> OkUnit]
    ELSE [stack |-> s, res |-> NotEnoughOperands(2, len(s))]

----------------------------------------------------------------------------
(* trait BasicStackOperations and trait InPlaceFnApplication: a call is    *)
(* served by the implementation of the stack it is made on.                *)

rotate_up(s) == IF s.kind = "classic" THEN Classic_rotate_up(s) ELSE Dynamic_rotate_up(s)

rotate_down(s) ==
    IF s.kind = "classic" THEN Classic_rotate_down(s) ELSE Dynamic_rotate_down(s)

swap(s) == IF s.kind = "classic" THEN Classic_swap(s) ELSE Dynamic_swap(s)

pop(s) == IF s.kind = "classic" THEN Classic_pop(s) ELSE Dynamic_pop(s)

push(s, value) ==
    IF s.kind = "classic" THEN Classic_push(s, value) ELSE Dynamic_push(s, value)

clear(s) == IF s.kind = "classic" THEN Classic_clear(s) ELSE Dynamic_clear(s)

\* Variant: the top is looked at but stays on the stack.
drop_peek(s) ==
    LET r == pop(s)
    IN [stack |-> s, res |-> IF r.res.tag = "Ok" THEN OkUnit ELSE r.res]

\* The provided method: self.pop().and(Ok(()))
drop(s) ==
    LET r == pop(s)
    IN [stack |-> r.stack, res |-> IF r.res.tag = "Ok" THEN OkUnit ELSE r.res]

\* A ClassicStack is also served by the drop that impl BasicStackOperations
\* for ClassicStack in classic/basic_ops.rs writes out itself.
drop_impls(s) == IF s.kind = "classic" THEN {drop(s), Classic_drop(s)} ELSE {drop(s)}

unary_fn_in_place(s, f) ==
    IF s.kind = "classic" THEN Classic_unary_fn_in_place(s, f)
    ELSE Dynamic_unary_fn_in_place(s, f)

binary_fn_in_place_first_arg(s, f) ==
    IF s.kind = "classic" THEN Classic_binary_fn_in_place_first_arg(s, f)
    ELSE Dynamic_binary_fn_in_place_first_arg(s, f)

binary_fn_in_place_second_arg(s, f) ==
    IF s.kind = "classic" THEN Classic_binary_fn_in_place_second_arg(s, f)
    ELSE Dynamic_binary_fn_in_place_second_arg(s, f)

----------------------------------------------------------------------------
(* trait BasicMathOperations: provided methods over InPlaceFnApplication   *)

\* Variant: an underflow is swallowed and reported as success.
add_swallow(s) ==
    LET r == binary_fn_in_place_first_arg(s, "add_assign")
    IN IF r.res.tag = "NotEnoughOperands" THEN [stack |-> r.stack, res |-> OkUnit] ELSE r

add(s) == binary_fn_in_place_first_arg(s, "add_assign")

\* Variant: accumulates into the second operand, giving second - top.
subtract_into_second(s) == binary_fn_in_place_second_arg(s, "sub_assign")

subtract(s) == binary_fn_in_place_first_arg(s, "sub_assign")

multiply(s) == binary_fn_in_place_first_arg(s, "mul_assign")

\* Variant: divides the top by the second operand.
divide_into_first(s) == binary_fn_in_place_first_arg(s, "div_assign")

divide(s) == binary_fn_in_place_second_arg(s, "div_assign")

change_sign(s) == unary_fn_in_place(s, "neg")

absolute_value(s) == unary_fn_in_place(s, "abs")

----------------------------------------------------------------------------
(* trait FloatMathOperations: provided methods over InPlaceFnApplication   *)

\* Variant: the top is taken as base and the second as exponent.
pow_top_is_base(s) == binary_fn_in_place_second_arg(s, "powf")

\* |x, y| { *x = y.powf(*x) }
pow(s) == binary_fn_in_place_first_arg(s, "powf")

\* The operands pow would read, if they are there, give a whole power.
PowOperandsWhole(s) ==
    IF s.kind = "classic" THEN PowfWhole(s.y, s.x)
    ELSE len(s) >= 2 => PowfWhole(get(s, 1).val, get(s, 0).val)

----------------------------------------------------------------------------
(* The state machine                                                       *)

BoundedSeq(S, n) == UNION {[1..k -> S] : k \in 0..n}

Elements(s) ==
    IF s.kind = "classic" THEN {s.x, s.y, s.z, s.t}
    ELSE {s.container[i] : i \in 1..Len(s.container)}

InBounds(s) ==
    /\ Elements(s) \subseteq Val
    /\ s.kind = "dynamic" => Len(s.container) <= MaxLen

NoCall ==
    [op |-> "none", arg |-> 0, fn |-> "none", pre |-> DynamicSizedStack_new, res |-> OkUnit]

Constructed ==
    {ClassicStack_new(x, y, z, t) : x \in Val, y \in Val, z \in Val, t \in Val}
        \cup {DynamicSizedStack_new}
        \cup {clone_from_slice(source) : source \in BoundedSeq(Val, MaxLen)}

\* A ClassicStack has the four registers X, Y, Z, T.
Registers == 4

\* Register i of a ClassicStack, counted from the top: X = 0, ..., T = 3.
register(s, i) ==
    CASE i = 0 -> s.x
      [] i = 1 -> s.y
      [] i = 2 -> s.z
      [] i = 3 -> s.t

\* What the call `op` does on the stack s: the stack it leaves and the value
\* it returns, under every implementation that serves it.
Call(op, arg, fn, s) ==
    CASE op = "rotate_up" -> {rotate_up(s)}
      [] op = "rotate_down" -> {rotate_down(s)}
      [] op = "swap" -> {swap(s)}
      [] op = "pop" -> {pop(s)}
      [] op = "push" -> {push(s, arg)}
      [] op = "clear" -> {clear(s)}
      [] op = "drop" -> drop_impls(s)
      [] op = "unary_fn_in_place" -> {unary_fn_in_place(s, fn)}
      [] op = "binary_fn_in_place_first_arg" -> {binary_fn_in_place_first_arg(s, fn)}
      [] op = "binary_fn_in_place_second_arg" -> {binary_fn_in_place_second_arg(s, fn)}
      [] op = "add" -> {add(s)}
      [] op = "subtract" -> {subtract(s)}
      [] op = "multiply" -> {multiply(s)}
      [] op = "divide" -> {divide(s)}
      [] op = "change_sign" -> {change_sign(s)}
      [] op = "absolute_value" -> {absolute_value(s)}
      [] op = "pow" -> {pow(s)}

\* No twin is kept.
TwinOff == [on |-> FALSE, stack |-> ClassicStack_new(0, 0, 0, 0), res |-> OkUnit]

\* A twin is run only along calls that succeed on the DynamicSizedStack and
\* leave it no longer than a ClassicStack, with rotations at full length only.
TwinFollows(op, out) ==
    /\ out.res.tag \in {"Ok", "OkUnit"}
    /\ len(out.stack) <= Registers
    /\ op \in {"rotate_up", "rotate_down"} => len(stack) = Registers

\* pop and drop count as one kind of call in a run.
RunKey(op) == IF op \in {"pop", "drop"} THEN "pop_or_drop" ELSE op

\* No run of calls is kept.
RunOff == [op |-> "off", count |-> 0, start |-> DynamicSizedStack_new]

\* A run of equal calls is followed for at most RunCap calls.
RunCap == 5

Init ==
    /\ stack \in Constructed
    /\ call = NoCall
    /\ prev = NoCall
    /\ depth = 1
    /\ run = RunOff
    /\ twin = TwinOff

InitSeq ==
    /\ stack \in Constructed
    /\ call = NoCall
    /\ prev = NoCall
    /\ depth = 2
    /\ run = RunOff
    /\ twin = TwinOff

InitRun ==
    /\ stack \in Constructed
    /\ call = NoCall
    /\ prev = NoCall
    /\ depth = 1
    /\ run = [op |-> "none", count |-> 0, start |-> stack]
    /\ twin = TwinOff

\* A DynamicSizedStack of at most four elements and a ClassicStack holding
\* the same values in the same order from the top.
InitPair ==
    /\ stack \in {clone_from_slice(source) :
                      source \in BoundedSeq(Val, IF MaxLen < Registers THEN MaxLen ELSE Registers)}
    /\ call = NoCall
    /\ prev = NoCall
    /\ depth = 1
    /\ run = RunOff
    /\ \E x \in Val, y \in Val, z \in Val, t \in Val :
           /\ \A i \in 0..(len(stack) - 1) :
                  register(ClassicStack_new(x, y, z, t), i) = get(stack, i).val
           /\ twin = [on |-> TRUE, stack |-> ClassicStack_new(x, y, z, t), res |-> OkUnit]

\* The process is alive: no call has panicked.
Alive == call.res.tag # "Panic"

\* The record of a call and the stack it leaves.
Step(op, arg, fn, out) ==
    /\ InBounds(out.stack)
    /\ run.op = RunKey(op) => run.count < RunCap
    /\ twin.on => TwinFollows(op, out)
    /\ stack' = out.stack
    /\ call' = [op |-> op, arg |-> arg, fn |-> fn, pre |-> stack, res |-> out.res]
    /\ prev' = IF depth = 2 THEN call ELSE prev
    /\ run' = IF run.op = "off" THEN run
              ELSE IF run.op = RunKey(op) THEN [run EXCEPT !.count = run.count + 1]
              ELSE [op |-> RunKey(op), count |-> 1, start |-> stack]
    /\ IF twin.on
       THEN \E o \in Call(op, arg, fn, twin.stack) :
               twin' = [on |-> TRUE, stack |-> o.stack, res |-> o.res]
       ELSE twin' = twin
    /\ UNCHANGED depth

RotateUp == Alive /\ Step("rotate_up", 0, "none", rotate_up(stack))

RotateDown == Alive /\ Step("rotate_down", 0, "none", rotate_down(stack))

Swap == Alive /\ Step("swap", 0, "none", swap(stack))

Pop == Alive /\ Step("pop", 0, "none", pop(stack))

Push == Alive /\ \E value \in Val : Step("push", value, "none", push(stack, value))

Clear == Alive /\ Step("clear", 0, "none", clear(stack))

Drop == Alive /\ \E out \in drop_impls(stack) : Step("drop", 0, "none", out)

UnaryFnInPlace ==
    Alive /\ \E f \in UnaryFns :
        Step("unary_fn_in_place", 0, f, unary_fn_in_place(stack, f))

BinaryFnInPlaceFirstArg ==
    Alive /\ \E f \in BinaryFns :
        Step("binary_fn_in_place_first_arg", 0, f, binary_fn_in_place_first_arg(stack, f))

BinaryFnInPlaceSecondArg ==
    Alive /\ \E f \in BinaryFns :
        Step("binary_fn_in_place_second_arg", 0, f, binary_fn_in_place_second_arg(stack, f))

Add == Alive /\ Step("add", 0, "none", add(stack))

Subtract == Alive /\ Step("subtract", 0, "none", subtract(stack))

Multiply == Alive /\ Step("multiply", 0, "none", multiply(stack))

Divide == Alive /\ Step("divide", 0, "none", divide(stack))

ChangeSign == Alive /\ Step("change_sign", 0, "none", change_sign(stack))

AbsoluteValue == Alive /\ Step("absolute_value", 0, "none", absolute_value(stack))

Pow == Alive /\ PowOperandsWhole(stack) /\ Step("pow", 0, "none", pow(stack))

Next ==
    \/ RotateUp
    \/ RotateDown
    \/ Swap
    \/ Pop
    \/ Push
    \/ Clear
    \/ Drop
    \/ UnaryFnInPlace
    \/ BinaryFnInPlaceFirstArg
    \/ BinaryFnInPlaceSecondArg
    \/ Add
    \/ Subtract
    \/ Multiply
    \/ Divide
    \/ ChangeSign
    \/ AbsoluteValue
    \/ Pow

Spec == Init /\ [][Next]_vars

\* The shape operations alone, with the previous call kept as well.
NextSeq ==
    \/ RotateUp
    \/ RotateDown
    \/ Swap
    \/ Pop
    \/ Push
    \/ Clear
    \/ Drop

SpecSeq == InitSeq /\ [][NextSeq]_vars

\* The rotations and swap alone, with the current run of equal calls kept.
NextRun ==
    \/ RotateUp
    \/ RotateDown
    \/ Swap

SpecRun == InitRun /\ [][NextRun]_vars

\* pop and drop alone, with the current run of pop/drop calls kept.
NextDrain ==
    \/ Pop
    \/ Drop

SpecDrain == InitRun /\ [][NextDrain]_vars

\* Every operation, made on a DynamicSizedStack and on its ClassicStack twin.
SpecPair == InitPair /\ [][Next]_vars

----------------------------------------------------------------------------
(* Properties.  `call.pre` is the stack the most recent call found, `stack` *)
(* the stack it left, `call.res` what it returned.                          *)

UnderflowOps ==
    {"pop", "drop", "swap", "unary_fn_in_place",
     "binary_fn_in_place_first_arg", "binary_fn_in_place_second_arg"}

Required(op) == IF op \in {"pop", "drop", "unary_fn_in_place"} THEN 1 ELSE 2

Underflowed ==
    /\ call.op \in UnderflowOps
    /\ call.pre.kind = "dynamic"
    /\ len(call.pre) < Required(call.op)

\* C1: on a DynamicSizedStack, pop, drop, swap, unary_fn_in_place and both
\* binary applications called with fewer elements than they require return
\* NotEnoughOperands{required, available = the length before the call} and
\* leave the stack exactly as it was.
C1_UnderflowLeavesStackUntouched ==
    Underflowed =>
        /\ call.res = NotEnoughOperands(Required(call.op), len(call.pre))
        /\ stack = call.pre

C1_Witness ==
    /\ Underflowed
    /\ call.op = "binary_fn_in_place_second_arg"
    /\ len(call.pre) = 1
    /\ call.res = NotEnoughOperands(2, 1)

\* C2: pop on a ClassicStack (x,y,z,t) returns Ok(x) and leaves (y,z,t,t).
C2_ClassicPop ==
    (call.op = "pop" /\ call.pre.kind = "classic") =>
        /\ call.res = Ok(call.pre.x)
        /\ stack = ClassicStack_new(call.pre.y, call.pre.z, call.pre.t, call.pre.t)

C2_Witness ==
    /\ call.op = "pop"
    /\ call.pre = ClassicStack_new(1, 2, -1, -2)
    /\ call.res = Ok(1)
    /\ stack = ClassicStack_new(2, -1, -2, -2)

\* C3: push(v) on a ClassicStack (x,y,z,t) returns Ok and leaves (v,x,y,z).
C3_ClassicPush ==
    (call.op = "push" /\ call.pre.kind = "classic") =>
        /\ call.res = OkUnit
        /\ stack = ClassicStack_new(call.arg, call.pre.x, call.pre.y, call.pre.z)

C3_Witness ==
    /\ call.op = "push"
    /\ call.arg = 0
    /\ call.pre = ClassicStack_new(1, 2, -1, -2)
    /\ stack = ClassicStack_new(0, 1, 2, -1)

\* C4: pop on a DynamicSizedStack of length n >= 1 returns Ok(old get(0)),
\* leaves length n-1 and new get(i) = old get(i+1) for every i < n-1; on an
\* empty one it returns NotEnoughOperands{required: 1, available: 0}.
C4_DynamicPop ==
    (call.op = "pop" /\ call.pre.kind = "dynamic") =>
        IF len(call.pre) >= 1
        THEN /\ call.res.tag = "Ok"
             /\ Some(call.res.val) = get(call.pre, 0)
             /\ len(stack) = len(call.pre) - 1
             /\ \A i \in 0..(len(call.pre) - 2) : get(stack, i) = get(call.pre, i + 1)
        ELSE call.res = NotEnoughOperands(1, 0)

C4_Witness ==
    /\ call.op = "pop"
    /\ call.pre = clone_from_slice(<<1, 2, -1>>)
    /\ call.res = Ok(-1)
    /\ get(stack, 0) = Some(2)
    /\ get(stack, 1) = Some(1)
    /\ len(stack) = 2

\* The most recent call is a pop that immediately follows a push.
PushThenPop == prev.op = "push" /\ call.op = "pop"

\* C5 as stated: on a ClassicStack, push(v) then pop() returns v and leaves
\* all four registers X, Y, Z, T as they were before the push.
C5_PushPopRestoresAllRegisters ==
    (PushThenPop /\ stack.kind = "classic") =>
        /\ call.res = Ok(prev.arg)
        /\ stack = prev.pre

\* C5 amended: on a ClassicStack (x,y,z,t), push(v) then pop() returns v and
\* leaves (x,y,z,z): X, Y and Z are as before the push, T holds the value Z
\* had, the old T having been discarded by the push.
C5_PushPopRestoresXYZ ==
    (PushThenPop /\ stack.kind = "classic") =>
        /\ call.res = Ok(prev.arg)
        /\ stack = ClassicStack_new(prev.pre.x, prev.pre.y, prev.pre.z, prev.pre.z)

C5_Witness ==
    /\ PushThenPop
    /\ prev.arg = 0
    /\ prev.pre = ClassicStack_new(1, 2, -1, -2)
    /\ call.pre = ClassicStack_new(0, 1, 2, -1)
    /\ call.res = Ok(0)
    /\ stack = ClassicStack_new(1, 2, -1, -1)

\* C6: on a DynamicSizedStack of any length, push(v) then pop() returns Ok(v)
\* and leaves the same length and the same elements in the same order.
C6_DynamicPushPopRestores ==
    (PushThenPop /\ stack.kind = "dynamic") =>
        /\ call.res = Ok(prev.arg)
        /\ len(stack) = len(prev.pre)
        /\ \A i \in 0..(len(prev.pre) - 1) : get(stack, i) = get(prev.pre, i)
        /\ stack = prev.pre

C6_Witness ==
    /\ PushThenPop
    /\ prev.arg = 0
    /\ prev.pre = clone_from_slice(<<1, 2>>)
    /\ call.pre = clone_from_slice(<<1, 2, 0>>)
    /\ call.res = Ok(0)
    /\ stack = clone_from_slice(<<1, 2>>)

\* q is the integer quotient y / x of the element type (x # 0): the rest
\* y - q*x is smaller than x in magnitude and has the sign of y.
IsQuotient(q, y, x) ==
    LET rest == y - q * x
    IN /\ Abs(rest) < Abs(x)
       /\ rest = 0 \/ (rest < 0) = (y < 0)

\* The elements below the two operands keep their order: new get(i) is old
\* get(i+1) for 1 <= i < n-1.
DeeperUnchanged ==
    \A i \in 1..(len(call.pre) - 2) : get(stack, i) = get(call.pre, i + 1)

\* C7: divide leaves second / top as the new top and consumes both operands:
\* a DynamicSizedStack of length n >= 2 gets length n-1 with the deeper
\* elements unchanged, a ClassicStack (x,y,z,t) becomes (y/x, z, t, t).
\* The quotient exists when the top is not zero.
C7_DivideSecondByTop ==
    call.op = "divide" =>
        IF call.pre.kind = "classic"
        THEN call.pre.x # 0 =>
                /\ call.res = OkUnit
                /\ IsQuotient(stack.x, call.pre.y, call.pre.x)
                /\ stack.y = call.pre.z
                /\ stack.z = call.pre.t
                /\ stack.t = call.pre.t
        ELSE (len(call.pre) >= 2 /\ get(call.pre, 0).val # 0) =>
                /\ call.res = OkUnit
                /\ len(stack) = len(call.pre) - 1
                /\ IsQuotient(get(stack, 0).val, get(call.pre, 1).val, get(call.pre, 0).val)
                /\ DeeperUnchanged

C7_Witness ==
    /\ call.op = "divide"
    /\ call.pre = ClassicStack_new(1, 2, -1, -2)
    /\ call.res = OkUnit
    /\ stack = ClassicStack_new(2, -1, -2, -2)

Arith(op, top, second) ==
    CASE op = "add" -> top + second
      [] op = "subtract" -> top - second
      [] op = "multiply" -> top * second

\* C8: add, subtract and multiply leave old_top op old_second as the new top
\* and consume both operands: a DynamicSizedStack of length n >= 2 gets
\* length n-1 with the deeper elements unchanged, a ClassicStack (x,y,z,t)
\* becomes (x op y, z, t, t).
C8_TopAccumulates ==
    call.op \in {"add", "subtract", "multiply"} =>
        IF call.pre.kind = "classic"
        THEN /\ call.res = OkUnit
             /\ stack = ClassicStack_new(Arith(call.op, call.pre.x, call.pre.y),
                                         call.pre.z, call.pre.t, call.pre.t)
        ELSE len(call.pre) >= 2 =>
                /\ call.res = OkUnit
                /\ len(stack) = len(call.pre) - 1
                /\ get(stack, 0) =
                       Some(Arith(call.op, get(call.pre, 0).val, get(call.pre, 1).val))
                /\ DeeperUnchanged

C8_Witness ==
    /\ call.op = "subtract"
    /\ call.pre = clone_from_slice(<<-2, 0, 2, 1>>)
    /\ call.res = OkUnit
    /\ get(stack, 0) = Some(-1)
    /\ get(stack, 1) = Some(0)
    /\ get(stack, 2) = Some(-2)
    /\ len(stack) = 3

\* What the closure of the most recent binary application yields:
\* keep-first mutates the old top with the old second read-only,
\* keep-second mutates the old second with the old top read-only.
ClosureOutcome(top, second) ==
    IF call.op = "binary_fn_in_place_first_arg"
    THEN BinaryFn(call.fn, top, second)
    ELSE BinaryFn(call.fn, second, top)

BinaryApplication ==
    call.op \in {"binary_fn_in_place_first_arg", "binary_fn_in_place_second_arg"}

\* C9: on a ClassicStack (x,y,z,t) both binary applications return Ok and
\* leave (r,z,t,t), r being x after f(&mut x, &y) for keep-first and y after
\* g(&x, &mut y) for keep-second, whenever the closure returns.
C9_ClassicBinaryCollapse ==
    (BinaryApplication /\ call.pre.kind = "classic") =>
        LET r == ClosureOutcome(call.pre.x, call.pre.y)
        IN ~r.panic =>
              /\ call.res = OkUnit
              /\ stack = ClassicStack_new(r.val, call.pre.z, call.pre.t, call.pre.t)

C9_Witness ==
    /\ call.op = "binary_fn_in_place_second_arg"
    /\ call.fn = "sub_assign"
    /\ call.pre = ClassicStack_new(1, 2, -1, -2)
    /\ call.res = OkUnit
    /\ stack = ClassicStack_new(1, -1, -2, -2)

\* C10: on a DynamicSizedStack of length n >= 2 both binary applications
\* return Ok, leave length n-1 with the closure's result on top, and leave
\* the elements below the two operands unchanged and in order, whenever the
\* closure returns.
C10_DynamicBinaryCollapse ==
    (BinaryApplication /\ call.pre.kind = "dynamic" /\ len(call.pre) >= 2) =>
        LET r == ClosureOutcome(get(call.pre, 0).val, get(call.pre, 1).val)
        IN ~r.panic =>
              /\ call.res = OkUnit
              /\ len(stack) = len(call.pre) - 1
              /\ get(stack, 0) = Some(r.val)
              /\ DeeperUnchanged

C10_Witness ==
    /\ call.op = "binary_fn_in_place_first_arg"
    /\ call.fn = "sub_assign"
    /\ call.pre = clone_from_slice(<<-2, 0, 2, 1>>)
    /\ call.res = OkUnit
    /\ stack = clone_from_slice(<<-2, 0, -1>>)

\* C11: unary_fn_in_place changes only the top.  On a ClassicStack it returns
\* Ok, X becomes f(X) and Y, Z, T keep their values.  On a DynamicSizedStack
\* of length >= 1 it returns Ok, the length and every element other than
\* get(0) are unchanged and get(0) becomes f(get(0)).  On an empty
\* DynamicSizedStack it returns NotEnoughOperands{1, 0} and the stack stays
\* empty.
C11_UnaryChangesOnlyTop ==
    call.op = "unary_fn_in_place" =>
        IF call.pre.kind = "classic"
        THEN /\ call.res = OkUnit
             /\ stack = [call.pre EXCEPT !.x = UnaryFn(call.fn, call.pre.x).val]
             /\ stack.y = call.pre.y /\ stack.z = call.pre.z /\ stack.t = call.pre.t
        ELSE IF len(call.pre) >= 1
        THEN /\ call.res = OkUnit
             /\ len(stack) = len(call.pre)
             /\ get(stack, 0) = Some(UnaryFn(call.fn, get(call.pre, 0).val).val)
             /\ \A i \in 1..(len(call.pre) - 1) : get(stack, i) = get(call.pre, i)
        ELSE /\ call.res = NotEnoughOperands(1, 0)
             /\ stack = call.pre

C11_Witness ==
    /\ call.op = "unary_fn_in_place"
    /\ call.fn = "neg"
    /\ call.pre = clone_from_slice(<<-2, 0, 1>>)
    /\ call.res = OkUnit
    /\ stack = clone_from_slice(<<-2, 0, -1>>)

\* What is read from the top of s downwards: get(0), get(1), ...
FromTop(s) == [i \in 1..len(s) |-> get(s, i - 1).val]

\* C12: rotate_up makes the bottommost element the new top and moves every
\* other element one place down: a ClassicStack (x,y,z,t) becomes (t,x,y,z);
\* on a DynamicSizedStack of length n >= 2 the new get(0) is the old
\* get(n-1) and the new get(i+1) is the old get(i); clone_from_slice of
\* [6,5,4,3,2,1] reads 6,1,2,3,4,5 from the top after one rotate_up.
C12_RotateUpBottomToTop ==
    /\ call.op = "rotate_up" =>
          IF call.pre.kind = "classic"
          THEN /\ call.res = OkUnit
               /\ stack = ClassicStack_new(call.pre.t, call.pre.x, call.pre.y, call.pre.z)
          ELSE len(call.pre) >= 2 =>
               LET n == len(call.pre)
               IN /\ call.res = OkUnit
                  /\ len(stack) = n
                  /\ get(stack, 0) = get(call.pre, n - 1)
                  /\ \A i \in 0..(n - 2) : get(stack, i + 1) = get(call.pre, i)
    /\ FromTop(rotate_up(clone_from_slice(<<6, 5, 4, 3, 2, 1>>)).stack)
           = <<6, 1, 2, 3, 4, 5>>

C12_Witness ==
    /\ call.op = "rotate_up"
    /\ call.pre = clone_from_slice(<<2, 1, 0, -1>>)
    /\ get(call.pre, 3) = Some(2)
    /\ call.res = OkUnit
    /\ get(stack, 0) = Some(2)
    /\ stack = clone_from_slice(<<1, 0, -1, 2>>)

Rotations == {"rotate_up", "rotate_down"}

\* The number of rotations after which a stack is expected back where it
\* started: four registers, or the current length.
RotateCycle(s) == IF s.kind = "classic" THEN 4 ELSE len(s)

\* C13: rotate_up called exactly N times in a row restores the stack to the
\* state it had before the first of them, N being 4 for a ClassicStack and
\* the current length for a DynamicSizedStack; likewise N rotate_down calls.
C13_FullCycleRestores ==
    (run.op \in Rotations /\ run.count = RotateCycle(run.start)) =>
        /\ call.res = OkUnit
        /\ stack = run.start

C13_Witness ==
    /\ run.op = "rotate_down"
    /\ run.count = 4
    /\ run.start = clone_from_slice(<<2, 1, 0, -1>>)
    /\ call.pre = clone_from_slice(<<1, 0, -1, 2>>)
    /\ stack = run.start

\* C14: rotate_down is the exact inverse of rotate_up on both stacks:
\* rotate_up then rotate_down, and rotate_down then rotate_up, each leave
\* the stack as it was before the pair.
C14_RotateDownInvertsRotateUp ==
    /\ (prev.op = "rotate_up" /\ call.op = "rotate_down") =>
           /\ prev.res = OkUnit /\ call.res = OkUnit
           /\ stack = prev.pre
    /\ (prev.op = "rotate_down" /\ call.op = "rotate_up") =>
           /\ prev.res = OkUnit /\ call.res = OkUnit
           /\ stack = prev.pre

C14_Witness ==
    /\ prev.op = "rotate_up"
    /\ call.op = "rotate_down"
    /\ prev.pre = clone_from_slice(<<2, 1, 0>>)
    /\ call.pre = clone_from_slice(<<1, 0, 2>>)
    /\ stack = clone_from_slice(<<2, 1, 0>>)

\* C15: on a DynamicSizedStack of length 0 or 1, rotate_up and rotate_down
\* return Ok and leave the stack unchanged; they never return
\* NotEnoughOperands.
C15_ShortRotateIsNoOp ==
    (call.op \in Rotations /\ call.pre.kind = "dynamic") =>
        /\ call.res.tag # "NotEnoughOperands"
        /\ len(call.pre) <= 1 =>
               /\ call.res = OkUnit
               /\ stack = call.pre

C15_Witness ==
    /\ call.op = "rotate_down"
    /\ call.pre = DynamicSizedStack_new
    /\ call.res = OkUnit
    /\ stack = DynamicSizedStack_new

\* C16: swap exchanges exactly the two topmost elements and leaves the
\* others unchanged: a ClassicStack (x,y,z,t) becomes (y,x,z,t); on a
\* DynamicSizedStack of length >= 2 get(0) and get(1) are exchanged and
\* nothing else moves.  Two swaps in a row restore the stack on both.
C16_SwapTopTwo ==
    /\ call.op = "swap" =>
          IF call.pre.kind = "classic"
          THEN /\ call.res = OkUnit
               /\ stack = ClassicStack_new(call.pre.y, call.pre.x, call.pre.z, call.pre.t)
          ELSE len(call.pre) >= 2 =>
               /\ call.res = OkUnit
               /\ len(stack) = len(call.pre)
               /\ get(stack, 0) = get(call.pre, 1)
               /\ get(stack, 1) = get(call.pre, 0)
               /\ \A i \in 2..(len(call.pre) - 1) : get(stack, i) = get(call.pre, i)
    /\ (prev.op = "swap" /\ call.op = "swap") => stack = prev.pre

C16_Witness ==
    /\ prev.op = "swap"
    /\ call.op = "swap"
    /\ prev.pre = ClassicStack_new(1, 2, -1, -2)
    /\ call.pre = ClassicStack_new(2, 1, -1, -2)
    /\ call.res = OkUnit
    /\ stack = ClassicStack_new(1, 2, -1, -2)

\* C17: drop() is pop() with the result discarded, on both stacks: it leaves
\* the state pop() leaves, returns Ok(()) exactly when pop() returns Ok and
\* otherwise the same NotEnoughOperands; a ClassicStack (1,2,3,4) becomes
\* (2,3,4,4).
C17_DropIsPopDiscarded ==
    /\ call.op = "drop" =>
          LET p == pop(call.pre)
          IN /\ stack = p.stack
             /\ call.res = OkUnit <=> p.res.tag = "Ok"
             /\ p.res.tag # "Ok" => call.res = p.res
    /\ \A d \in drop_impls(ClassicStack_new(1, 2, 3, 4)) :
           /\ d.res = OkUnit
           /\ d.stack = ClassicStack_new(2, 3, 4, 4)

C17_Witness ==
    /\ call.op = "drop"
    /\ call.pre = ClassicStack_new(1, 2, -1, -2)
    /\ pop(call.pre).res = Ok(1)
    /\ call.res = OkUnit
    /\ stack = ClassicStack_new(2, -1, -2, -2)

Succeeded == call.res.tag \in {"Ok", "OkUnit"}

\* C19: the length of a DynamicSizedStack changes only as follows: +1 on
\* push; -1 on a successful pop, drop and either binary application (the
\* arithmetic built on them included); to 0 on clear; not at all on swap,
\* rotate_up, rotate_down, unary application (change_sign and absolute_value
\* included) or any call that returned an error.
C19_DynamicLengthChanges ==
    (call.op # "none" /\ call.pre.kind = "dynamic" /\ call.res.tag # "Panic") =>
        IF ~Succeeded THEN len(stack) = len(call.pre)
        ELSE CASE call.op = "push" -> len(stack) = len(call.pre) + 1
               [] call.op \in {"pop", "drop", "binary_fn_in_place_first_arg",
                               "binary_fn_in_place_second_arg",
                               "add", "subtract", "multiply", "divide", "pow"} ->
                      len(stack) = len(call.pre) - 1
               [] call.op = "clear" -> len(stack) = 0
               [] call.op \in {"swap", "rotate_up", "rotate_down", "unary_fn_in_place",
                               "change_sign", "absolute_value"} ->
                      len(stack) = len(call.pre)

C19_Witness ==
    /\ call.op = "drop"
    /\ call.pre = clone_from_slice(<<2, 1, 0>>)
    /\ call.res = OkUnit
    /\ len(call.pre) = 3
    /\ len(stack) = 2

\* C20: whenever a call returns NotEnoughOperands{num_required,
\* num_available}, num_available is smaller than num_required.
C20_AvailableBelowRequired ==
    call.res.tag = "NotEnoughOperands" =>
        call.res.num_available < call.res.num_required

C20_Witness ==
    /\ call.op = "swap"
    /\ call.pre = clone_from_slice(<<1>>)
    /\ call.res = NotEnoughOperands(2, 1)
    /\ call.res.num_available < call.res.num_required

\* C21: on a ClassicStack every call of every operation, in every sequence,
\* that returns, returns Ok: NotEnoughOperands is never returned by a
\* ClassicStack.
C21_ClassicNeverUnderflows ==
    (call.op # "none" /\ call.pre.kind = "classic") =>
        /\ call.res.tag # "NotEnoughOperands"
        /\ call.res.tag # "Panic" => Succeeded

C21_Witness ==
    /\ call.op = "change_sign"
    /\ call.pre = ClassicStack_new(0, 0, 0, 0)
    /\ call.res = OkUnit
    /\ stack = ClassicStack_new(0, 0, 0, 0)

\* C22: every operation, on every state of either stack, returns a result
\* value (Ok or a StackError) and never aborts the process, the derived
\* operations at an integer element type included (divide with a zero on
\* top).
C22_NeverAborts == call.res.tag # "Panic"

\* C23: positions of a DynamicSizedStack are counted from the top, newest
\* first: after a push get(0) is the pushed value and the new get(i+1) is
\* the old get(i) for every i; clone_from_slice(s) makes the last element of
\* s the top, get(i) = s[len-1-i]; and get(i) is None exactly when
\* i >= len().
C23_PositionsFromTop ==
    /\ (call.op = "push" /\ call.pre.kind = "dynamic") =>
           /\ get(stack, 0) = Some(call.arg)
           /\ \A i \in 0..(len(call.pre) - 1) : get(stack, i + 1) = get(call.pre, i)
    /\ stack.kind = "dynamic" =>
           LET source == stack.container
               from_slice == clone_from_slice(source)
           IN /\ \A i \in 0..(Len(source) - 1) :
                     get(from_slice, i) = Some(source[(Len(source) - 1 - i) + 1])
              /\ \A i \in 0..(MaxLen + 1) :
                     (get(from_slice, i) = None) <=> (i >= len(from_slice))
              /\ \A i \in 0..(MaxLen + 1) :
                     (get(stack, i) = None) <=> (i >= len(stack))

C23_Witness ==
    /\ call.op = "push"
    /\ call.arg = 2
    /\ call.pre = clone_from_slice(<<-1, 0>>)
    /\ stack = clone_from_slice(<<-1, 0, 2>>)
    /\ get(stack, 0) = Some(2)
    /\ get(stack, 1) = Some(0)
    /\ get(stack, 2) = Some(-1)
    /\ get(stack, 3) = None

\* C24: the derived operations pass on the underflow of the application
\* they are built on and do nothing else: on a DynamicSizedStack of fewer
\* than 2 elements add, subtract, multiply and divide return
\* NotEnoughOperands{2, len} and leave the stack unchanged (add on a stack
\* holding just 7 leaves it holding 7); on an empty DynamicSizedStack
\* change_sign and absolute_value return NotEnoughOperands{1, 0}.
C24_DerivedPropagateUnderflow ==
    /\ (/\ call.op \in {"add", "subtract", "multiply", "divide"}
        /\ call.pre.kind = "dynamic"
        /\ len(call.pre) < 2) =>
           /\ call.res = NotEnoughOperands(2, len(call.pre))
           /\ stack = call.pre
    /\ (/\ call.op \in {"change_sign", "absolute_value"}
        /\ call.pre.kind = "dynamic"
        /\ len(call.pre) = 0) =>
           /\ call.res = NotEnoughOperands(1, 0)
           /\ stack = call.pre
    /\ LET r == add(clone_from_slice(<<7>>))
       IN /\ r.res = NotEnoughOperands(2, 1)
          /\ r.stack = clone_from_slice(<<7>>)

C24_Witness ==
    /\ call.op = "add"
    /\ call.pre = clone_from_slice(<<2>>)
    /\ call.res = NotEnoughOperands(2, 1)
    /\ stack = clone_from_slice(<<2>>)

\* C25: pow takes the top as exponent and the second as base: with old top x
\* and old second y it returns Ok, leaves y to the power of x as the new top
\* and consumes both operands, a ClassicStack (x,y,z,t) becoming
\* (y^x, z, t, t) and a DynamicSizedStack of length n >= 2 getting length
\* n-1 with the deeper elements unchanged; ClassicStack (2, 10, 2, 3)
\* becomes (100, 2, 3, 3).
C25_PowBaseIsSecond ==
    /\ call.op = "pow" =>
          IF call.pre.kind = "classic"
          THEN /\ call.res = OkUnit
               /\ stack = ClassicStack_new(powf(call.pre.y, call.pre.x),
                                           call.pre.z, call.pre.t, call.pre.t)
          ELSE len(call.pre) >= 2 =>
               /\ call.res = OkUnit
               /\ len(stack) = len(call.pre) - 1
               /\ get(stack, 0) =
                      Some(powf(get(call.pre, 1).val, get(call.pre, 0).val))
               /\ DeeperUnchanged
    /\ pow(ClassicStack_new(2, 10, 2, 3)) =
           [stack |-> ClassicStack_new(100, 2, 3, 3), res |-> OkUnit]

C25_Witness ==
    /\ call.op = "pow"
    /\ call.pre = clone_from_slice(<<-1, 2, 1>>)
    /\ call.res = OkUnit
    /\ stack = clone_from_slice(<<-1, 2>>)

\* C26: the same calls made on a ClassicStack and on a DynamicSizedStack that
\* start with the same values in the same order from the top agree: as long
\* as every call succeeds on the DynamicSizedStack, its length never
\* exceeds 4 and rotate_up/rotate_down are made only at length 4, after
\* every call register i of the ClassicStack (X = 0, Y = 1, Z = 2, T = 3)
\* equals get(i) of the DynamicSizedStack for every i below its length, and
\* every pop returns the same value on both.
C26_ClassicTwinAgrees ==
    twin.on =>
        /\ \A i \in 0..(len(stack) - 1) : Some(register(twin.stack, i)) = get(stack, i)
        /\ call.op = "pop" => twin.res = call.res

C26_Witness ==
    /\ twin.on
    /\ call.op = "pop"
    /\ call.pre = clone_from_slice(<<2, 1, 0, -1>>)
    /\ call.res = Ok(-1)
    /\ twin.res = Ok(-1)
    /\ stack = clone_from_slice(<<2, 1, 0>>)
    /\ twin.stack = ClassicStack_new(0, 1, 2, 2)

\* The most recent call is a push of the value the pop just before returned.
PopThenPushBack == prev.op = "pop" /\ call.op = "push" /\ prev.res = Ok(call.arg)

\* C27: pop() followed at once by a push of the popped value restores the
\* stack exactly: all four registers of a ClassicStack in every state, the
\* length and every element of a non-empty DynamicSizedStack.
C27_PopPushRestores ==
    /\ PopThenPushBack =>
           /\ call.res = OkUnit
           /\ stack = prev.pre
    /\ (prev.op = "pop" /\ (prev.pre.kind = "classic" \/ len(prev.pre) >= 1)) =>
           prev.res.tag = "Ok"

C27_Witness ==
    /\ PopThenPushBack
    /\ prev.pre = ClassicStack_new(1, 2, -1, -2)
    /\ call.pre = ClassicStack_new(2, -1, -2, -2)
    /\ call.arg = 1
    /\ stack = ClassicStack_new(1, 2, -1, -2)

\* The number of elements a call reads from the stack.
NeedsOperands(op) ==
    CASE op \in {"pop", "drop", "unary_fn_in_place", "change_sign", "absolute_value"} -> 1
      [] op \in {"swap", "binary_fn_in_place_first_arg", "binary_fn_in_place_second_arg",
                 "add", "subtract", "multiply", "divide", "pow"} -> 2
      [] OTHER -> 0

\* C28: a DynamicSizedStack reports NotEnoughOperands only when operands
\* are really missing: pop, drop and the unary application return Ok
\* whenever the length is at least 1, swap and both binary applications
\* whenever it is at least 2 (and their closure returns), and push, clear,
\* rotate_up and rotate_down at every length.
C28_ErrOnlyWhenOperandsMissing ==
    (call.op # "none" /\ call.pre.kind = "dynamic") =>
        /\ call.res.tag = "NotEnoughOperands" => len(call.pre) < NeedsOperands(call.op)
        /\ (len(call.pre) >= NeedsOperands(call.op) /\ call.res.tag # "Panic") => Succeeded

C28_Witness ==
    /\ call.op = "clear"
    /\ call.pre = DynamicSizedStack_new
    /\ NeedsOperands(call.op) = 0
    /\ call.res = OkUnit

\* The calls that end in binary_fn_in_place_first_arg, and in ..._second_arg.
ViaFirstArg == {"binary_fn_in_place_first_arg", "add", "subtract", "multiply", "pow"}

ViaSecondArg == {"binary_fn_in_place_second_arg", "divide"}

\* C29: in the binary applications of DynamicSizedStack the unwrap() calls
\* never meet None: whenever the test len() >= 2 has passed, removing the
\* penultimate element (keep-first) leaves a last element for last_mut(),
\* and popping the last element (keep-second) yields Some and leaves a last
\* element for last_mut().
C29_UnwrapsMeetSome ==
    (/\ call.op \in ViaFirstArg \cup ViaSecondArg
     /\ call.pre.kind = "dynamic"
     /\ call.res.tag # "NotEnoughOperands") =>
        LET container == call.pre.container
        IN /\ Len(container) >= 2
           /\ call.op \in ViaFirstArg =>
                  Vec_last(Vec_remove(container, Len(container) - 2).vec).tag = "Some"
           /\ call.op \in ViaSecondArg =>
                  /\ Vec_pop(container).item.tag = "Some"
                  /\ Vec_last(Vec_pop(container).vec).tag = "Some"

C29_Witness ==
    /\ call.op = "binary_fn_in_place_second_arg"
    /\ call.fn = "add_assign"
    /\ call.pre = clone_from_slice(<<1, -2>>)
    /\ Vec_last(Vec_pop(call.pre.container).vec) = Some(1)
    /\ call.res = OkUnit
    /\ stack = clone_from_slice(<<-1>>)

\* C30: a ClassicStack never empties: from any state with T = t, after three
\* pop/drop calls in a row all four registers equal t, and every further
\* pop returns t and leaves the registers unchanged.
C30_ClassicNeverEmpties ==
    (run.op = "pop_or_drop" /\ run.start.kind = "classic") =>
        LET t == run.start.t
        IN /\ Succeeded
           /\ run.count >= 3 => stack = ClassicStack_new(t, t, t, t)
           /\ (run.count >= 4 /\ call.op = "pop") =>
                  /\ call.res = Ok(t)
                  /\ stack = call.pre

C30_Witness ==
    /\ run.op = "pop_or_drop"
    /\ run.count = RunCap
    /\ run.start = ClassicStack_new(1, 2, -1, -2)
    /\ call.op = "pop"
    /\ call.res = Ok(-2)
    /\ stack = ClassicStack_new(-2, -2, -2, -2)

====
